---- MODULE Spec2Model ----
(***************************************************************************)
(* Wildfire tracker: the two variants of the program kept in the           *)
(* repository.                                                             *)
(*   "main"      = src/Main_Project_File.py  (settable radius, sentinel    *)
(*                 check in the filter, single fetch attempt)              *)
(*   "commented" = src/commented.py          (fetch button, 3-attempt      *)
(*                 retry, worker-pool file load, periodic memory check)    *)
(*                                                                         *)
(* Coordinates are integers in tenths of a degree.  Real numbers are       *)
(* fixed-point integers with 4 decimal digits (SCALE); every division      *)
(* truncates toward zero, which keeps the sign symmetry of IEEE rounding.  *)
(***************************************************************************)
EXTENDS Integers, Sequences, FiniteSets, TLC

\* ------------------------------------------------------------------------
\* Fixed-point arithmetic standing for Python floats
\* ------------------------------------------------------------------------
SCALE == 10000

\* pi at SCALE
PI_FX == 31416

Abs(x) == IF x < 0 THEN 0 - x ELSE x

\* float division: rounding is symmetric in the sign of the operands
Div(a, b) == IF (a < 0) = (b < 0) THEN Abs(a) \div Abs(b) ELSE 0 - (Abs(a) \div Abs(b))

\* product of two fixed-point numbers
Mul(a, b) == Div(a * b, SCALE)

\* math.radians applied to a coordinate given in tenths of a degree
Radians(d) == Div(d * 17453, 1000)

\* Taylor series shared by math.sin and math.cos: sum of the terms
\* t, -t x^2/(k(k+1)), ... while the term is not 0
RECURSIVE TrigSeries(_, _, _)
TrigSeries(x, term, k) ==
    IF term = 0 \/ k > 40 THEN 0
    ELSE term + TrigSeries(x, 0 - Div(Mul(Div(Mul(term, x), k), x), k + 1), k + 2)

\* math.sin, radians at SCALE in, value at SCALE out
Sin(x) == TrigSeries(x, x, 2)

\* math.cos
Cos(x) == TrigSeries(x, SCALE, 1)

\* integer square root by bisection: greatest r with r*r <= n
RECURSIVE ISqrt(_, _, _)
ISqrt(n, lo, hi) ==
    IF lo >= hi THEN lo
    ELSE LET mid == (lo + hi + 1) \div 2
         IN  IF mid * mid <= n THEN ISqrt(n, mid, hi) ELSE ISqrt(n, lo, mid - 1)

\* math.sqrt of a number held at SCALE*SCALE, result at SCALE
Sqrt2(n) == ISqrt(n, 0, SCALE)

\* arctangent series t - t^3/3 + t^5/5 - ... for 0 <= t <= 1/2
RECURSIVE AtanSeries(_, _, _)
AtanSeries(t, pow, k) ==
    IF pow = 0 \/ k > 40 THEN 0
    ELSE Div(pow, k) - AtanSeries(t, Mul(Mul(pow, t), t), k + 2)

\* arctangent on [0, 1]: above 1/2 the argument is halved first,
\* atan t = 2 atan(t / (1 + sqrt(1 + t^2)))
Atan01(t) ==
    IF 2 * t <= SCALE THEN AtanSeries(t, t, 1)
    ELSE LET h == Div(t * SCALE, SCALE + ISqrt(SCALE * SCALE + t * t, 0, 2 * SCALE))
         IN  2 * AtanSeries(h, h, 1)

\* math.atan2(y, x) for y >= 0 and x >= 0, the quadrant the haversine uses
Atan2(y, x) ==
    IF y = 0 THEN 0
    ELSE IF x >= y THEN Atan01(Div(y * SCALE, x))
    ELSE Div(PI_FX, 2) - Atan01(Div(x * SCALE, y))

\* ------------------------------------------------------------------------
\* Configuration constants
\* ------------------------------------------------------------------------
\* Earth radius in kilometres
R == 6371

\* detection radius of the commented variant, default radius of the main one
RADIUS_KM == 100

MEMORY_LIMIT_MB == 3072

\* ------------------------------------------------------------------------
\* haversine(lat1, lon1, lat2, lon2): distance in kilometres
\* ------------------------------------------------------------------------
\* haversine with cos(lat1) taken twice in place of cos(lat1) * cos(lat2)
haversine_CosLat1(lat1, lon1, lat2, lon2) ==
    LET rlat1 == Radians(lat1)
        rlon1 == Radians(lon1)
        rlat2 == Radians(lat2)
        rlon2 == Radians(lon2)
        dlat  == rlat2 - rlat1
        dlon  == rlon2 - rlon1
        s1    == Sin(Div(dlat, 2))
        s2    == Sin(Div(dlon, 2))
        a     == s1 * s1 + Mul(Mul(Cos(rlat1), Cos(rlat1)), s2) * s2
        c     == 2 * Atan2(Sqrt2(a), Sqrt2(SCALE * SCALE - a))
    IN  Div(R * c, SCALE)

\* haversine of the source, over tenths of a degree, in whole kilometres
haversine(lat1, lon1, lat2, lon2) ==
    LET rlat1 == Radians(lat1)
        rlon1 == Radians(lon1)
        rlat2 == Radians(lat2)
        rlon2 == Radians(lon2)
        dlat  == rlat2 - rlat1
        dlon  == rlon2 - rlon1
        s1    == Sin(Div(dlat, 2))
        s2    == Sin(Div(dlon, 2))
        \* a is held at SCALE*SCALE
        a     == s1 * s1 + Mul(Mul(Cos(rlat1), Cos(rlat2)), s2) * s2
        c     == 2 * Atan2(Sqrt2(a), Sqrt2(SCALE * SCALE - a))
    IN  Div(R * c, SCALE)

\* ------------------------------------------------------------------------
\* Data: cells, rows, response bodies and DataFrames
\* ------------------------------------------------------------------------
\* a cell of a coordinate column: a number, a missing value (NaN) or text
Num(v) == [k |-> "num", v |-> v]
NaN    == [k |-> "nan", v |-> 0]
Str(v) == [k |-> "str", v |-> v]

Row(lat, lon) == [lat |-> lat, lon |-> lon]

\* a point as a row of numbers
Pt(lat, lon) == Row(Num(lat), Num(lon))

\* None, and the DataFrame pd.DataFrame() / pd.DataFrame([]) builds
NoneValue == [k |-> "none", cols |-> {}, rows |-> <<>>]
EmptyDF   == [k |-> "df", cols |-> {}, rows |-> <<>>]

DF(cols, rows) == [k |-> "df", cols |-> cols, rows |-> rows]

\* pandas keeps a column holding any text as objects: read_csv leaves every
\* value of such a column as text; missing values stay NaN
ColumnCell(cell, isObject) ==
    IF isObject /\ cell.k = "num" THEN Str(cell.v) ELSE cell

\* pd.read_csv of a parsable body
read_csv(body) ==
    LET latObj == \E i \in DOMAIN body.rows : body.rows[i].lat.k = "str"
        lonObj == \E i \in DOMAIN body.rows : body.rows[i].lon.k = "str"
    IN  DF(body.cols,
           [i \in DOMAIN body.rows |->
               Row(ColumnCell(body.rows[i].lat, latObj),
                   ColumnCell(body.rows[i].lon, lonObj))])

\* DataFrame.empty
IsEmpty(df) == df.cols = {} \/ df.rows = <<>>

\* the unset reference location
Sentinel == <<0, 0>>

\* RowTest with the comparison distance < radius
RowTest_Strict(cols, row, loc, radius) ==
    IF ~({"latitude", "longitude"} \subseteq cols) THEN "KeyError"
    ELSE IF row.lat.k = "str" \/ row.lon.k = "str" THEN "TypeError"
    ELSE IF row.lat.k = "nan" \/ row.lon.k = "nan" THEN "out"
    ELSE IF haversine(loc[1], loc[2], row.lat.v, row.lon.v) < radius THEN "in"
    ELSE "out"

\* one evaluation of  haversine(loc, row['latitude'], row['longitude']) <= radius:
\* "KeyError" when a column is absent, "TypeError" when math.radians gets text,
\* "out" for NaN (a comparison with nan is False), else "in" or "out"
RowTest(cols, row, loc, radius) ==
    IF ~({"latitude", "longitude"} \subseteq cols) THEN "KeyError"
    ELSE IF row.lat.k = "str" \/ row.lon.k = "str" THEN "TypeError"
    ELSE IF row.lat.k = "nan" \/ row.lon.k = "nan" THEN "out"
    ELSE IF haversine(loc[1], loc[2], row.lat.v, row.lon.v) <= radius THEN "in"
    ELSE "out"

\* one pass of the loop body: the list filtered_data after the row, or the
\* exception the row raises
KeepRow(acc, row, test) ==
    IF test \in {"KeyError", "TypeError"} THEN [exc |-> test, rows |-> <<>>]
    ELSE IF test = "in" THEN [exc |-> "", rows |-> Append(acc.rows, row)]
    ELSE acc

\* the loop over the rows from index i on, acc holding the rows kept so
\* far; an exception ends the loop
RECURSIVE FilterRows(_, _, _, _, _, _)
FilterRows(cols, rows, i, loc, radius, acc) ==
    IF i > Len(rows) \/ acc.exc # "" THEN acc
    ELSE FilterRows(cols, rows, i + 1, loc, radius,
                    KeepRow(acc, rows[i], RowTest(cols, rows[i], loc, radius)))

NoRows == [exc |-> "", rows |-> <<>>]

\* the value a filter call hands back: [exc, df, notice]; notice is TRUE
\* when the status label was set to "User location not set."
Raised(exc) == [exc |-> exc, df |-> EmptyDF, notice |-> FALSE]
Returned(df) == [exc |-> "", df |-> df, notice |-> FALSE]

\* M_FilterResult losing the first record kept
M_FilterResult_DropFirst(cols, r) ==
    IF r.exc # "" THEN Raised(r.exc)
    ELSE IF r.rows = <<>> \/ Tail(r.rows) = <<>> THEN Returned(EmptyDF)
    ELSE Returned(DF(cols, Tail(r.rows)))

\* pd.DataFrame(filtered_data): a list of no rows gives a frame of no columns
M_FilterResult(cols, r) ==
    IF r.exc # "" THEN Raised(r.exc)
    ELSE IF r.rows = <<>> THEN Returned(EmptyDF)
    ELSE Returned(DF(cols, r.rows))

\* main variant, filter_wildfires_within_radius
M_filter_wildfires_within_radius(data, loc, radius) ==
    IF loc = Sentinel
    THEN [exc |-> "", df |-> EmptyDF, notice |-> TRUE]
    ELSE M_FilterResult(data.cols, FilterRows(data.cols, data.rows, 1, loc, radius, NoRows))

\* data[mask]: the rows kept, under the columns of data
C_FilterResult(cols, r) ==
    IF r.exc # "" THEN Raised(r.exc) ELSE Returned(DF(cols, r.rows))

\* commented variant, filter_wildfires_within_radius: data.apply over the
\* rows with the module constant RADIUS_KM; data is None after a failed fetch
C_filter_wildfires_within_radius(data, loc) ==
    IF data.k = "none" THEN Raised("AttributeError")
    ELSE C_FilterResult(data.cols, FilterRows(data.cols, data.rows, 1, loc, RADIUS_KM, NoRows))

\* ------------------------------------------------------------------------
\* Presentation: status label, text box, map markers
\* ------------------------------------------------------------------------
\* a status label text: the message, and the exception it quotes (if any)
St(msg)       == [msg |-> msg, exc |-> ""]
StE(msg, exc) == [msg |-> msg, exc |-> exc]

\* text box contents
Text(msg, rows) == [msg |-> msg, rows |-> rows]
BlankText == Text("", <<>>)
NoneFoundText == Text("No wildfires found", <<>>)

\* main variant, show_results: the text box after the call
M_show_results(data) ==
    IF IsEmpty(data) THEN NoneFoundText
    ELSE IF "acq_date" \in data.cols THEN Text("records", data.rows)
    ELSE BlankText  \* KeyError on the first row, after the delete

\* main variant, display_data: markers and status label after the call
M_display_data(data, status) ==
    IF IsEmpty(data)
    THEN [markers |-> <<>>, status |-> St("No wildfires found")]
    ELSE IF "acq_date" \in data.cols
    THEN [markers |-> data.rows, status |-> St("Wildfire data displayed")]
    ELSE [markers |-> <<>>, status |-> status]  \* KeyError after delete_all_marker

\* commented variant, show_results: every line reads row['location']
C_show_results(data) ==
    IF IsEmpty(data) THEN NoneFoundText
    ELSE IF {"location", "acq_date"} \subseteq data.cols THEN Text("records", data.rows)
    ELSE BlankText

\* commented variant, display_data: markers are added, never cleared
C_display_data(data, old) ==
    IF data.rows = <<>> THEN old
    ELSE IF "location" \in data.cols THEN old \o data.rows
    ELSE old  \* KeyError on the first row

\* commented variant, update_text_box(self.loaded_data['formatted_coordinates'])
C_update_text_box(loaded, old) ==
    IF loaded.k = "df" /\ "formatted_coordinates" \in loaded.cols
    THEN Text("formatted", loaded.rows)
    ELSE old  \* KeyError / TypeError before the text box is touched

\* ------------------------------------------------------------------------
\* Bounds and the inputs the environment draws from
\* ------------------------------------------------------------------------
\* tasks submitted to the executor over a run
MaxTasks == 2

\* user actions (button presses, dialogs) handled over a run
MaxUserActions == 2

TaskIds == 1 .. MaxTasks

\* ThreadPoolExecutor(max_workers=4)
MAX_WORKERS == 4

\* reference points a lookup can return, in tenths of a degree
LocA == <<100, 200>>
GeoPoints == {LocA}

NearCols == {"latitude", "longitude", "acq_date"}

\* response bodies and file contents
BodyNear    == [ok |-> TRUE, cols |-> NearCols,
                rows |-> <<Pt(101, 200), Pt(105, 200), Pt(114, 200)>>]
BodyOrigin  == [ok |-> TRUE, cols |-> NearCols \cup {"location"},
                rows |-> <<Pt(1, 1), Pt(100, 200)>>]
BodyNoDate  == [ok |-> TRUE, cols |-> {"latitude", "longitude"},
                rows |-> <<Pt(101, 200)>>]
BodyNoLat   == [ok |-> TRUE, cols |-> {"longitude", "acq_date"},
                rows |-> <<Pt(101, 200)>>]
BodyGarbage == [ok |-> FALSE, cols |-> {}, rows |-> <<>>]
Bodies == {BodyNear, BodyOrigin, BodyNoDate, BodyNoLat, BodyGarbage}

\* contents of the files the user can pick
Files == {BodyNear, BodyNoDate, BodyGarbage}

\* how a lookup (IP location, geocoding) can end
Found(p) == [k |-> "found", p |-> p]
Failed(k) == [k |-> k, p |-> Sentinel]
DetectOutcomes == {Found(p) : p \in GeoPoints} \cup {Failed("none"), Failed("error")}
GeocodeOutcomes == {Found(p) : p \in GeoPoints}
                   \cup {Failed("none"), Failed("timeout"), Failed("error")}

\* what requests.get / raise_for_status can raise: a Timeout, or another
\* RequestException (ConnectionError stands for HTTPError too: the code
\* treats every exception that is not a Timeout alike)
TransportFailures == {"Timeout", "ConnectionError"}

\* the ways one GET of the hotspot endpoint can end
Fail(exc) == [k |-> "fail", exc |-> exc, body |-> BodyGarbage]
Body(b)   == [k |-> "body", exc |-> "", body |-> b]
Responses == {Fail(e) : e \in TransportFailures} \cup {Body(b) : b \in Bodies}

\* the exception one attempt raises ("" for none): requests.get,
\* raise_for_status, then pd.read_csv
AttemptExc(resp) ==
    IF resp.k = "fail" THEN resp.exc
    ELSE IF ~resp.body.ok THEN "ParserError"
    ELSE ""

\* text typed in the radius dialog: an integer, or text int() rejects
RadiusInputs == {[isInt |-> TRUE, v |-> n] : n \in {-1, 0, 50, 200}}
                \cup {[isInt |-> FALSE, v |-> 0]}

\* ------------------------------------------------------------------------
\* State
\* ------------------------------------------------------------------------
VARIABLES
    variant,          \* "main" or "commented": which program runs
    user_location,    \* self.user_location
    radius_km,        \* self.radius_km (main variant; the commented one has RADIUS_KM)
    loaded_data,      \* self.loaded_data
    status_label,     \* text of self.status_label
    text_box,         \* contents of self.text_box
    markers,          \* markers on self.map_widget
    fetch_button,     \* state of self.fetch_button (commented variant)
    ui,               \* where the interactive thread is
    exit_status,      \* "" while the main thread runs, else the exit status
    tasks,            \* the tasks handed to self.executor
    next_task,        \* number of tasks submitted so far
    after_queue,      \* callbacks registered with root.after(0, ...), in order
    memory_check_id,  \* self.memory_check_id: 0 for None, else the timer id
    mem_timer,        \* TRUE while an after(1000, check_memory) timer is pending
    user_actions      \* number of user actions handled so far

vars == <<variant, user_location, radius_km, loaded_data, status_label, text_box,
          markers, fetch_button, ui, exit_status, tasks, next_task,
          after_queue, memory_check_id, mem_timer, user_actions>>

session  == <<user_location, radius_km, loaded_data>>
widgets  == <<status_label, text_box, markers, fetch_button>>
memcheck == <<memory_check_id, mem_timer>>

\* a slot of the executor before a task is submitted to it
NoTask == [kind |-> "none", pc |-> "idle", log |-> <<>>, data |-> NoneValue,
           filtered |-> NoneValue, exc |-> "", e_bound |-> FALSE, posted |-> 0]

\* __init__ up to the call of detect_current_location, which is where the
\* interactive thread stands in the initial state
Init ==
    /\ variant \in {"main", "commented"}
    /\ user_location = Sentinel
    /\ radius_km = RADIUS_KM
    /\ loaded_data = NoneValue
    /\ status_label = St("Detecting your current location...")
    /\ text_box = BlankText
    /\ markers = <<>>
    /\ fetch_button = "normal"
    /\ ui = "detect"
    /\ exit_status = ""
    /\ tasks = [t \in TaskIds |-> NoTask]
    /\ next_task = 0
    /\ after_queue = <<>>
    /\ memory_check_id = 0
    /\ mem_timer = FALSE
    /\ user_actions = 0

\* the interactive thread is inside a blocking network or file call
UiInIO == ui \in {"detect", "geocode", "read_csv"}

\* the Tk main loop is running and free to dispatch an event
UiIdle == ui = "idle"

\* the main loop has ended (window destroyed, or sys.exit)
UiClosed == ui = "closed"

\* ------------------------------------------------------------------------
\* Interactive thread: startup and user actions
\* ------------------------------------------------------------------------
\* the main loop dispatches one more user action
UserAction ==
    /\ UiIdle
    /\ user_actions < MaxUserActions
    /\ user_actions' = user_actions + 1

\* detect_current_location returns: the IP lookup gave a point, gave no
\* usable latitude/longitude, or raised
detect_current_location(outcome) ==
    /\ ui = "detect"
    /\ \/ /\ outcome.k = "found"
          /\ user_location' = outcome.p
          /\ status_label' = St("Location detected")
       \/ /\ outcome.k = "none"
          /\ status_label' = St("Unable to detect current location.")
          /\ UNCHANGED user_location
       \/ /\ outcome.k = "error"
          /\ status_label' = St("Error detecting location")
          /\ UNCHANGED user_location
    \* main variant: root.mainloop(); commented: main() calls check_memory first
    /\ ui' = IF variant = "main" THEN "idle" ELSE "startup_check"
    /\ UNCHANGED user_actions
    /\ UNCHANGED <<variant, radius_km, loaded_data, text_box, markers, fetch_button,
                   exit_status, tasks, next_task, after_queue, memcheck>>

\* check_memory (commented variant): called once by main(), then by its own
\* after(1000, ...) timer; over is whether rss exceeds MEMORY_LIMIT_MB
check_memory(over) ==
    /\ variant = "commented"
    /\ \/ ui = "startup_check"
       \/ UiIdle /\ mem_timer
    /\ IF over
       THEN \* check_memory_limit: sys.exit(1)
            /\ ui' = "closed"
            /\ exit_status' = "1"
            /\ after_queue' = <<>>
            /\ mem_timer' = FALSE
            /\ UNCHANGED memory_check_id
       ELSE /\ ui' = "idle"
            /\ memory_check_id' = 1
            /\ mem_timer' = TRUE
            /\ UNCHANGED <<exit_status, after_queue>>
    /\ UNCHANGED user_actions
    /\ UNCHANGED <<variant, session, widgets, tasks, next_task>>

\* set_location up to the geocode call: an empty entry returns at once
set_location(empty) ==
    /\ UserAction
    /\ IF empty
       THEN /\ status_label' = St("Please enter a city and country.")
            /\ UNCHANGED ui
       ELSE /\ ui' = "geocode"
            /\ UNCHANGED status_label
    /\ UNCHANGED <<variant, session, text_box, markers, fetch_button,
                   exit_status, tasks, next_task, after_queue, memcheck>>

\* set_location from the return of geolocator.geocode on
set_location_geocoded(outcome) ==
    /\ ui = "geocode"
    /\ ui' = "idle"
    /\ \/ /\ outcome.k = "found"
          /\ user_location' = outcome.p
          /\ status_label' = St("Location set")
       \/ /\ outcome.k = "none"
          /\ status_label' = St("Location not found.")
          /\ UNCHANGED user_location
       \/ /\ outcome.k = "timeout"
          /\ status_label' = St("Geocoding service timed out.")
          /\ UNCHANGED user_location
       \/ /\ outcome.k = "error"
          /\ status_label' = St("Error setting location")
          /\ UNCHANGED user_location
    /\ UNCHANGED user_actions
    /\ UNCHANGED <<variant, radius_km, loaded_data, text_box, markers, fetch_button,
                   exit_status, tasks, next_task, after_queue, memcheck>>

\* the ValueError update_radius catches: raised by int() on text that is no
\* integer, or by update_radius itself on an integer <= 0
InvalidRadius(input) ==
    IF input.isInt THEN "ValueError: Radius must be a positive integer."
    ELSE "ValueError: invalid literal for int()"

\* update_radius accepting the integers >= 0
update_radius_AcceptsZero(input) ==
    /\ variant = "main"
    /\ UserAction
    /\ IF input.isInt /\ input.v >= 0
       THEN /\ radius_km' = input.v
            /\ status_label' = St("Tracking radius updated")
       ELSE /\ status_label' = StE("Invalid input", InvalidRadius(input))
            /\ UNCHANGED radius_km
    /\ UNCHANGED <<variant, user_location, loaded_data, text_box, markers, fetch_button, ui, exit_status, tasks, next_task,
                   after_queue, memcheck>>

\* update_radius in the dialog of set_radius (main variant)
update_radius(input) ==
    /\ variant = "main"
    /\ UserAction
    /\ IF input.isInt /\ input.v > 0
       THEN /\ radius_km' = input.v
            /\ status_label' = St("Tracking radius updated")
       ELSE /\ status_label' = StE("Invalid input", InvalidRadius(input))
            /\ UNCHANGED radius_km
    /\ UNCHANGED <<variant, user_location, loaded_data, text_box, markers, fetch_button, ui, exit_status, tasks, next_task,
                   after_queue, memcheck>>

\* a worker is free for the task being submitted
WorkerFree == Cardinality({t \in TaskIds : tasks[t].pc \notin {"idle", "done"}}) < MAX_WORKERS

\* self.executor.submit(...): the task in the next slot starts at pc
Submit(kind, pc) ==
    /\ next_task < MaxTasks
    /\ WorkerFree
    /\ next_task' = next_task + 1
    /\ tasks' = [tasks EXCEPT ![next_task + 1] = [NoTask EXCEPT !.kind = kind, !.pc = pc]]

\* main variant, fetch_data
M_fetch_data ==
    /\ variant = "main"
    /\ UserAction
    /\ status_label' = St("Fetching data...")
    /\ Submit("fetch", "get")
    /\ UNCHANGED <<variant, session, text_box, markers, fetch_button,
                   ui, exit_status, after_queue, memcheck>>

\* commented variant, fetch_data: the button is disabled until the task's
\* last callback; a disabled button does not invoke its command
C_fetch_data ==
    /\ variant = "commented"
    /\ UserAction
    /\ fetch_button = "normal"
    /\ status_label' = St("Fetching data...")
    /\ fetch_button' = "disabled"
    /\ Submit("fetch", "get")
    /\ UNCHANGED <<variant, session, text_box, markers, ui,
                   exit_status, after_queue, memcheck>>

\* main variant, load_csv_data up to pd.read_csv: picked is FALSE when the
\* file dialog is cancelled
M_load_csv_data(picked) ==
    /\ variant = "main"
    /\ UserAction
    /\ IF picked
       THEN /\ status_label' = St("Loaded file")
            /\ ui' = "read_csv"
       ELSE UNCHANGED <<status_label, ui>>
    /\ UNCHANGED <<variant, session, text_box, markers, fetch_button,
                   exit_status, tasks, next_task, after_queue, memcheck>>

\* main variant, load_csv_data from the return of pd.read_csv on; a file
\* that does not parse raises out of the handler
M_load_csv_data_read(body) ==
    /\ ui = "read_csv"
    /\ ui' = "idle"
    /\ loaded_data' = IF body.ok THEN read_csv(body) ELSE loaded_data
    /\ UNCHANGED user_actions
    /\ UNCHANGED <<variant, user_location, radius_km, widgets, exit_status, tasks,
                   next_task, after_queue, memcheck>>

\* commented variant, load_csv_data
C_load_csv_data(picked) ==
    /\ variant = "commented"
    /\ UserAction
    /\ IF picked
       THEN /\ Submit("load", "read")
            /\ UNCHANGED status_label
       ELSE /\ status_label' = St("No file selected. Exiting.")
            /\ UNCHANGED <<tasks, next_task>>
    /\ UNCHANGED <<variant, session, text_box, markers, fetch_button,
                   ui, exit_status, after_queue, memcheck>>

\* main variant, start_reading_csv_data after the filter returned r:
\* show_results, then display_data; an exception in one call skips the rest
M_ShowFiltered(r) ==
    IF r.exc # ""
    THEN UNCHANGED <<status_label, text_box, markers>>
    ELSE /\ text_box' = M_show_results(r.df)
         /\ IF ~IsEmpty(r.df) /\ "acq_date" \notin r.df.cols
            THEN UNCHANGED <<status_label, markers>>  \* show_results raised
            ELSE /\ markers' = M_display_data(r.df, status_label).markers
                 /\ status_label' = M_display_data(r.df, status_label).status

\* main variant, start_reading_csv_data
M_start_reading_csv_data ==
    /\ variant = "main"
    /\ UserAction
    /\ IF loaded_data.k = "none"
       THEN /\ status_label' = St("No CSV data loaded.")
            /\ UNCHANGED <<text_box, markers>>
       ELSE M_ShowFiltered(M_filter_wildfires_within_radius(loaded_data, user_location,
                                                            radius_km))
    /\ UNCHANGED <<variant, session, fetch_button, ui, exit_status,
                   tasks, next_task, after_queue, memcheck>>

\* commented variant, start_reading_csv_data
C_start_reading_csv_data ==
    /\ variant = "commented"
    /\ UserAction
    /\ IF loaded_data.k = "none"
       THEN /\ status_label' = St("No CSV file loaded.")
            /\ UNCHANGED text_box
       ELSE /\ text_box' = C_update_text_box(loaded_data, text_box)
            /\ UNCHANGED status_label
    /\ UNCHANGED <<variant, session, markers, fetch_button, ui,
                   exit_status, tasks, next_task, after_queue, memcheck>>

\* cancel_memory_check leaving the timer as it is
cancel_memory_check_NoCancel ==
    /\ variant = "commented"
    /\ UiIdle
    /\ ui' = "closing"
    /\ UNCHANGED mem_timer
    /\ UNCHANGED user_actions
    /\ UNCHANGED <<variant, session, widgets, exit_status, tasks, next_task,
                   after_queue, memory_check_id>>

\* the window is closed, commented variant: the WM_DELETE_WINDOW handler of
\* main() first calls cancel_memory_check, which cancels the timer named by
\* memory_check_id; root.destroy() is the handler's next call
cancel_memory_check ==
    /\ variant = "commented"
    /\ UiIdle
    /\ ui' = "closing"
    /\ mem_timer' = IF memory_check_id # 0 THEN FALSE ELSE mem_timer
    /\ UNCHANGED user_actions
    /\ UNCHANGED <<variant, session, widgets, exit_status, tasks, next_task,
                   after_queue, memory_check_id>>

\* the window is torn down: root.destroy() in the handler of the commented
\* variant, Tk's default WM_DELETE_WINDOW handler in the main variant.
\* Pending callbacks and timers die with the window and mainloop returns
close_window ==
    /\ \/ variant = "main" /\ UiIdle
       \/ ui = "closing"
    /\ ui' = "closed"
    /\ exit_status' = "0"
    /\ after_queue' = <<>>
    /\ mem_timer' = FALSE
    /\ UNCHANGED user_actions
    /\ UNCHANGED <<variant, session, widgets, tasks, next_task, memory_check_id>>

\* ------------------------------------------------------------------------
\* Worker-pool threads
\* ------------------------------------------------------------------------
Callback(fn, t) == [fn |-> fn, t |-> t]

\* a Tk call made from a worker thread is handed to the main loop: it
\* completes when the loop is free, and raises once the loop has ended
TkCallable == UiIdle \/ UiClosed

\* main variant, fetch_data_task: requests.get, raise_for_status, pd.read_csv
M_fetch_data_task_get(t, resp) ==
    /\ variant = "main"
    /\ tasks[t].kind = "fetch" /\ tasks[t].pc = "get"
    /\ LET exc == AttemptExc(resp)
       IN  tasks' = [tasks EXCEPT
               ![t].log = Append(@, IF exc = "" THEN "ok" ELSE exc),
               ![t].exc = exc,
               ![t].data = IF exc = "" THEN read_csv(resp.body) ELSE @,
               ![t].pc = IF exc = "" THEN "filter" ELSE "except"]
    /\ UNCHANGED user_actions
    /\ UNCHANGED <<variant, session, widgets, ui, exit_status, next_task,
                   after_queue, memcheck>>

\* a task's call of the filter returned r
TaskFiltered(t, r) ==
    tasks' = [tasks EXCEPT
        ![t].exc = r.exc,
        ![t].filtered = IF r.exc = "" THEN r.df ELSE @,
        ![t].pc = IF r.exc = "" THEN "post" ELSE "except"]

\* main variant, fetch_data_task: the call of filter_wildfires_within_radius;
\* with the location unset the filter configures the status label itself
M_fetch_data_task_filter(t) ==
    /\ variant = "main"
    /\ tasks[t].kind = "fetch" /\ tasks[t].pc = "filter"
    /\ IF user_location = Sentinel
       THEN /\ TkCallable
            /\ IF UiClosed
               THEN /\ TaskFiltered(t, Raised("RuntimeError"))
                    /\ UNCHANGED status_label
               ELSE /\ status_label' = St("User location not set.")
                    /\ TaskFiltered(t, M_filter_wildfires_within_radius(
                                           tasks[t].data, user_location, radius_km))
       ELSE /\ TaskFiltered(t, M_filter_wildfires_within_radius(
                                   tasks[t].data, user_location, radius_km))
            /\ UNCHANGED status_label
    /\ UNCHANGED user_actions
    /\ UNCHANGED <<variant, session, text_box, markers, fetch_button,
                   ui, exit_status, next_task, after_queue, memcheck>>

\* main variant, fetch_data_task: root.after(0, display_data), then
\* root.after(0, show_results)
M_fetch_data_task_post(t) ==
    /\ variant = "main"
    /\ tasks[t].kind = "fetch" /\ tasks[t].pc = "post"
    /\ TkCallable
    /\ IF UiClosed
       THEN /\ tasks' = [tasks EXCEPT ![t].exc = "RuntimeError", ![t].pc = "except"]
            /\ UNCHANGED after_queue
       ELSE /\ after_queue' = Append(after_queue,
                Callback(IF tasks[t].posted = 0 THEN "display_data" ELSE "show_results", t))
            /\ tasks' = [tasks EXCEPT ![t].posted = @ + 1,
                                      ![t].pc = IF tasks[t].posted = 1 THEN "done" ELSE @]
    /\ UNCHANGED user_actions
    /\ UNCHANGED <<variant, session, widgets, ui, exit_status, next_task, memcheck>>

\* either variant, the except clause of a task: root.after(0, lambda: ...e...);
\* when the loop has ended root.after raises out of the clause
TaskExcept(t, fn, next) ==
    /\ tasks[t].pc = "except"
    /\ TkCallable
    /\ IF UiClosed
       THEN /\ tasks' = [tasks EXCEPT ![t].exc = "RuntimeError", ![t].pc = next]
            /\ UNCHANGED after_queue
       ELSE /\ after_queue' = Append(after_queue, Callback(fn, t))
            /\ tasks' = [tasks EXCEPT ![t].e_bound = TRUE, ![t].pc = "except_exit"]
    /\ UNCHANGED user_actions
    /\ UNCHANGED <<variant, session, widgets, ui, exit_status, next_task, memcheck>>

\* either variant, leaving the except clause: Python unbinds the name e,
\* which the queued lambda reads when it runs
TaskLeaveExcept(t, next) ==
    /\ tasks[t].pc = "except_exit"
    /\ tasks' = [tasks EXCEPT ![t].e_bound = FALSE, ![t].pc = next]
    /\ UNCHANGED user_actions
    /\ UNCHANGED <<variant, session, widgets, ui, exit_status, next_task,
                   after_queue, memcheck>>

M_fetch_data_task_except(t) ==
    /\ variant = "main"
    /\ tasks[t].kind = "fetch"
    /\ TaskExcept(t, "show_error", "done")

M_fetch_data_task_return(t) ==
    /\ variant = "main"
    /\ tasks[t].kind = "fetch"
    /\ TaskLeaveExcept(t, "done")

\* commented variant, fetch_single_data_task: one pass of the retry loop
C_fetch_single_data_task(t, resp) ==
    /\ variant = "commented"
    /\ tasks[t].kind = "fetch" /\ tasks[t].pc = "get"
    /\ LET exc == AttemptExc(resp)
           attempt == Len(tasks[t].log)  \* the loop variable, 0 .. 2
       IN  tasks' = [tasks EXCEPT
               ![t].log = Append(@, IF exc = "" THEN "ok" ELSE exc),
               ![t].exc = IF exc = "Timeout" /\ attempt >= 2 THEN exc ELSE "",
               ![t].data = IF exc = "" THEN read_csv(resp.body) ELSE NoneValue,
               ![t].pc = IF exc = "Timeout"
                         THEN (IF attempt < 2 THEN "get" ELSE "except")
                         ELSE "filter"]
    /\ UNCHANGED user_actions
    /\ UNCHANGED <<variant, session, widgets, ui, exit_status, next_task,
                   after_queue, memcheck>>

\* commented variant, fetch_data_task: the call of filter_wildfires_within_radius
C_fetch_data_task_filter(t) ==
    /\ variant = "commented"
    /\ tasks[t].kind = "fetch" /\ tasks[t].pc = "filter"
    /\ TaskFiltered(t, C_filter_wildfires_within_radius(tasks[t].data, user_location))
    /\ UNCHANGED user_actions
    /\ UNCHANGED <<variant, session, widgets, ui, exit_status, next_task,
                   after_queue, memcheck>>

\* the callbacks of the commented fetch_data_task, in the order it posts them
C_FetchCallbacks == <<"set_position", "display_data", "show_results", "status_done">>

\* commented variant, fetch_data_task: the next of its four root.after calls
C_fetch_data_task_post(t) ==
    /\ variant = "commented"
    /\ tasks[t].kind = "fetch" /\ tasks[t].pc = "post"
    /\ TkCallable
    /\ IF UiClosed
       THEN /\ tasks' = [tasks EXCEPT ![t].exc = "RuntimeError", ![t].pc = "except"]
            /\ UNCHANGED after_queue
       ELSE /\ after_queue' = Append(after_queue,
                                     Callback(C_FetchCallbacks[tasks[t].posted + 1], t))
            /\ tasks' = [tasks EXCEPT
                   ![t].posted = @ + 1,
                   ![t].pc = IF tasks[t].posted + 1 = Len(C_FetchCallbacks)
                             THEN "finally" ELSE @]
    /\ UNCHANGED user_actions
    /\ UNCHANGED <<variant, session, widgets, ui, exit_status, next_task, memcheck>>

C_fetch_data_task_except(t) ==
    /\ variant = "commented"
    /\ tasks[t].kind = "fetch"
    /\ TaskExcept(t, "show_error", "finally")

C_fetch_data_task_leave_except(t) ==
    /\ variant = "commented"
    /\ tasks[t].kind = "fetch"
    /\ TaskLeaveExcept(t, "finally")

\* the finally clause without the call that re-enables the button
C_fetch_data_task_finally_NoEnable(t) ==
    /\ variant = "commented"
    /\ tasks[t].kind = "fetch" /\ tasks[t].pc = "finally"
    /\ TkCallable
    /\ UNCHANGED after_queue
    /\ tasks' = [tasks EXCEPT ![t].pc = "done"]
    /\ UNCHANGED user_actions
    /\ UNCHANGED <<variant, session, widgets, ui, exit_status, next_task, memcheck>>

\* commented variant, fetch_data_task: the finally clause re-enables the button
C_fetch_data_task_finally(t) ==
    /\ variant = "commented"
    /\ tasks[t].kind = "fetch" /\ tasks[t].pc = "finally"
    /\ TkCallable
    /\ after_queue' = IF UiClosed THEN after_queue
                      ELSE Append(after_queue, Callback("enable_button", t))
    /\ tasks' = [tasks EXCEPT ![t].pc = "done"]
    /\ UNCHANGED user_actions
    /\ UNCHANGED <<variant, session, widgets, ui, exit_status, next_task, memcheck>>

RequiredCols == {"latitude", "longitude", "acq_date"}

\* commented variant, load_csv_data_task: self.loaded_data = pd.read_csv(filename)
C_load_csv_data_task_read(t, body) ==
    /\ variant = "commented"
    /\ tasks[t].kind = "load" /\ tasks[t].pc = "read"
    /\ IF body.ok
       THEN /\ loaded_data' = read_csv(body)
            /\ tasks' = [tasks EXCEPT ![t].log = <<"ok">>, ![t].pc = "check"]
       ELSE /\ tasks' = [tasks EXCEPT ![t].log = <<"ParserError">>,
                                      ![t].exc = "ParserError", ![t].pc = "except"]
            /\ UNCHANGED <<loaded_data>>
    /\ UNCHANGED user_actions
    /\ UNCHANGED <<variant, user_location, radius_km, widgets, ui, exit_status,
                   next_task, after_queue, memcheck>>

\* commented variant, load_csv_data_task: the column check on self.loaded_data
\* and the new column 'formatted_coordinates'
C_load_csv_data_task_check(t) ==
    /\ variant = "commented"
    /\ tasks[t].kind = "load" /\ tasks[t].pc = "check"
    /\ IF RequiredCols \subseteq loaded_data.cols
       THEN /\ loaded_data' = DF(loaded_data.cols \cup {"formatted_coordinates"},
                                 loaded_data.rows)
            /\ tasks' = [tasks EXCEPT ![t].pc = "post_text"]
       ELSE /\ tasks' = [tasks EXCEPT ![t].pc = "post_must"]
            /\ UNCHANGED loaded_data
    /\ UNCHANGED user_actions
    /\ UNCHANGED <<variant, user_location, radius_km, widgets, ui, exit_status,
                   next_task, after_queue, memcheck>>

\* commented variant, load_csv_data_task: its root.after call
C_load_csv_data_task_post(t) ==
    /\ variant = "commented"
    /\ tasks[t].kind = "load" /\ tasks[t].pc \in {"post_text", "post_must"}
    /\ TkCallable
    /\ IF UiClosed
       THEN /\ tasks' = [tasks EXCEPT ![t].exc = "RuntimeError", ![t].pc = "except"]
            /\ UNCHANGED after_queue
       ELSE /\ after_queue' = Append(after_queue,
                Callback(IF tasks[t].pc = "post_text" THEN "update_text_box"
                         ELSE "status_csv_must", t))
            /\ tasks' = [tasks EXCEPT ![t].posted = 1, ![t].pc = "done"]
    /\ UNCHANGED user_actions
    /\ UNCHANGED <<variant, session, widgets, ui, exit_status, next_task, memcheck>>

C_load_csv_data_task_except(t) ==
    /\ variant = "commented"
    /\ tasks[t].kind = "load"
    /\ TaskExcept(t, "status_csv_error", "done")

C_load_csv_data_task_return(t) ==
    /\ variant = "commented"
    /\ tasks[t].kind = "load"
    /\ TaskLeaveExcept(t, "done")

\* ------------------------------------------------------------------------
\* Interactive thread: the callbacks queued with root.after(0, ...)
\* ------------------------------------------------------------------------
\* the main loop takes the oldest callback, whose function is fn
Dispatch(fn) ==
    /\ UiIdle
    /\ after_queue # <<>>
    /\ Head(after_queue).fn = fn
    /\ after_queue' = Tail(after_queue)

\* the task whose callback is being run
Cur == Head(after_queue).t

\* lambda: self.display_data(filtered_data)
M_run_display_data ==
    /\ variant = "main"
    /\ Dispatch("display_data")
    /\ markers' = M_display_data(tasks[Cur].filtered, status_label).markers
    /\ status_label' = M_display_data(tasks[Cur].filtered, status_label).status
    /\ UNCHANGED user_actions
    /\ UNCHANGED <<variant, session, text_box, fetch_button, ui,
                   exit_status, tasks, next_task, memcheck>>

\* lambda: self.show_results(filtered_data)
M_run_show_results ==
    /\ variant = "main"
    /\ Dispatch("show_results")
    /\ text_box' = M_show_results(tasks[Cur].filtered)
    /\ UNCHANGED user_actions
    /\ UNCHANGED <<variant, session, status_label, markers,
                   fetch_button, ui, exit_status, tasks, next_task, memcheck>>

\* the status a lambda reading e sets: when the worker has left its except
\* clause e is unbound, the lambda raises NameError and sets nothing
ErrorStatus(t, msg) ==
    IF tasks[t].e_bound THEN StE(msg, tasks[t].exc) ELSE status_label

\* lambda: self.show_error(f"Error fetching data: {e}")
M_run_show_error ==
    /\ variant = "main"
    /\ Dispatch("show_error")
    /\ status_label' = ErrorStatus(Cur, "Error fetching data")
    /\ UNCHANGED user_actions
    /\ UNCHANGED <<variant, session, text_box, markers, fetch_button,
                   ui, exit_status, tasks, next_task, memcheck>>

\* lambda: self.map_widget.set_position(*self.user_location)
C_run_set_position ==
    /\ variant = "commented"
    /\ Dispatch("set_position")
    /\ UNCHANGED user_actions
    /\ UNCHANGED <<variant, session, status_label, text_box, markers, fetch_button,
                   ui, exit_status, tasks, next_task, memcheck>>

C_run_display_data ==
    /\ variant = "commented"
    /\ Dispatch("display_data")
    /\ markers' = C_display_data(tasks[Cur].filtered, markers)
    /\ UNCHANGED user_actions
    /\ UNCHANGED <<variant, session, status_label, text_box,
                   fetch_button, ui, exit_status, tasks, next_task, memcheck>>

C_run_show_results ==
    /\ variant = "commented"
    /\ Dispatch("show_results")
    /\ text_box' = C_show_results(tasks[Cur].filtered)
    /\ UNCHANGED user_actions
    /\ UNCHANGED <<variant, session, status_label, markers,
                   fetch_button, ui, exit_status, tasks, next_task, memcheck>>

\* lambda: self.status_label.config(text="Done Fetching Data")
C_run_status_done ==
    /\ variant = "commented"
    /\ Dispatch("status_done")
    /\ status_label' = St("Done Fetching Data")
    /\ UNCHANGED user_actions
    /\ UNCHANGED <<variant, session, text_box, markers, fetch_button,
                   ui, exit_status, tasks, next_task, memcheck>>

\* lambda: self.show_error(f"Unexpected error: {str(e)}")
C_run_show_error ==
    /\ variant = "commented"
    /\ Dispatch("show_error")
    /\ status_label' = ErrorStatus(Cur, "Unexpected error")
    /\ UNCHANGED user_actions
    /\ UNCHANGED <<variant, session, text_box, markers, fetch_button,
                   ui, exit_status, tasks, next_task, memcheck>>

\* lambda: self.fetch_button.state(['!disabled'])
C_run_enable_button ==
    /\ variant = "commented"
    /\ Dispatch("enable_button")
    /\ fetch_button' = "normal"
    /\ UNCHANGED user_actions
    /\ UNCHANGED <<variant, session, status_label, text_box, markers,
                   ui, exit_status, tasks, next_task, memcheck>>

\* lambda: self.update_text_box(self.loaded_data['formatted_coordinates'])
C_run_update_text_box ==
    /\ variant = "commented"
    /\ Dispatch("update_text_box")
    /\ text_box' = C_update_text_box(loaded_data, text_box)
    /\ UNCHANGED user_actions
    /\ UNCHANGED <<variant, session, status_label, markers,
                   fetch_button, ui, exit_status, tasks, next_task, memcheck>>

\* lambda: self.status_label.config(text="CSV file must contain ...")
C_run_status_csv_must ==
    /\ variant = "commented"
    /\ Dispatch("status_csv_must")
    /\ status_label' = St("CSV file must contain columns")
    /\ UNCHANGED user_actions
    /\ UNCHANGED <<variant, session, text_box, markers, fetch_button,
                   ui, exit_status, tasks, next_task, memcheck>>

\* lambda: self.status_label.config(text=f"Error loading CSV file: {str(e)}")
C_run_status_csv_error ==
    /\ variant = "commented"
    /\ Dispatch("status_csv_error")
    /\ status_label' = ErrorStatus(Cur, "Error loading CSV file")
    /\ UNCHANGED user_actions
    /\ UNCHANGED <<variant, session, text_box, markers, fetch_button,
                   ui, exit_status, tasks, next_task, memcheck>>

\* ------------------------------------------------------------------------
\* Specification
\* ------------------------------------------------------------------------
UiStep ==
    \/ \E o \in DetectOutcomes : detect_current_location(o)
    \/ \E over \in BOOLEAN : check_memory(over)
    \/ \E empty \in BOOLEAN : set_location(empty)
    \/ \E o \in GeocodeOutcomes : set_location_geocoded(o)
    \/ \E i \in RadiusInputs : update_radius(i)
    \/ M_fetch_data
    \/ C_fetch_data
    \/ \E picked \in BOOLEAN : M_load_csv_data(picked)
    \/ \E b \in Files : M_load_csv_data_read(b)
    \/ \E picked \in BOOLEAN : C_load_csv_data(picked)
    \/ M_start_reading_csv_data
    \/ C_start_reading_csv_data
    \/ cancel_memory_check
    \/ close_window

CallbackStep ==
    \/ M_run_display_data
    \/ M_run_show_results
    \/ M_run_show_error
    \/ C_run_set_position
    \/ C_run_display_data
    \/ C_run_show_results
    \/ C_run_status_done
    \/ C_run_show_error
    \/ C_run_enable_button
    \/ C_run_update_text_box
    \/ C_run_status_csv_must
    \/ C_run_status_csv_error

WorkerStep(t) ==
    \/ \E r \in Responses : M_fetch_data_task_get(t, r)
    \/ M_fetch_data_task_filter(t)
    \/ M_fetch_data_task_post(t)
    \/ M_fetch_data_task_except(t)
    \/ M_fetch_data_task_return(t)
    \/ \E r \in Responses : C_fetch_single_data_task(t, r)
    \/ C_fetch_data_task_filter(t)
    \/ C_fetch_data_task_post(t)
    \/ C_fetch_data_task_except(t)
    \/ C_fetch_data_task_leave_except(t)
    \/ C_fetch_data_task_finally(t)
    \/ \E b \in Files : C_load_csv_data_task_read(t, b)
    \/ C_load_csv_data_task_check(t)
    \/ C_load_csv_data_task_post(t)
    \/ C_load_csv_data_task_except(t)
    \/ C_load_csv_data_task_return(t)

Next ==
    \/ UiStep
    \/ CallbackStep
    \/ \E t \in TaskIds : WorkerStep(t)

Spec == Init /\ [][Next]_vars

\* ------------------------------------------------------------------------
\* Claims
\* ------------------------------------------------------------------------
FetchTasks == {t \in TaskIds : tasks[t].kind = "fetch"}

\* the retry loop of the task is over
AttemptsOver(t) == tasks[t].log # <<>> /\ tasks[t].pc # "get"

LastAttempt(t) == tasks[t].log[Len(tasks[t].log)]

\* C1: a fetch task makes at most 3 transport attempts; an attempt is
\* followed by another one exactly when it timed out and fewer than 3 were
\* made: every attempt but the last timed out, and the last one is a
\* success, a failure that is no timeout, or the third.
C1_RetryPolicy ==
    \A t \in FetchTasks :
        /\ Len(tasks[t].log) <= 3
        /\ \A k \in 1 .. Len(tasks[t].log) - 1 : tasks[t].log[k] = "Timeout"
        /\ AttemptsOver(t) /\ Len(tasks[t].log) < 3 => LastAttempt(t) # "Timeout"

\* the retry policy of C1 as the commented variant implements it
C1_CommentedRetries == variant = "commented" => C1_RetryPolicy

AllTimedOut == <<"Timeout", "Timeout", "Timeout">>

\* C2: when all 3 attempts of a task timed out, the callback carrying the
\* task's failure shows the timeout on the status label.
C2_TimeoutSurfaced ==
    [][C_run_show_error /\ tasks[Cur].log = AllTimedOut
         => status_label' = StE("Unexpected error", "Timeout")]_vars

\* the first response of task t parsed, and lacks a required column
FirstLacksColumns(t) ==
    /\ tasks[t].log # <<>>
    /\ tasks[t].log[1] = "ok"
    /\ ~(RequiredCols \subseteq tasks[t].data.cols)

\* C3: a task whose first response lacks an expected column ends after
\* exactly 1 attempt in the schema failure (the KeyError on the column),
\* which is neither the timeout nor the transport failure.
C3_SchemaErrorNoRetry ==
    \A t \in FetchTasks :
        FirstLacksColumns(t) /\ tasks[t].pc \in {"post", "except"}
            => Len(tasks[t].log) = 1 /\ tasks[t].exc = "KeyError"

\* C4: the callback of a failed fetch task reports the task's failure on
\* the status label, and only the memory check ends the process with a
\* non-zero status.
C4_FailureReported ==
    [][/\ M_run_show_error => status_label' = StE("Error fetching data", tasks[Cur].exc)
       /\ C_run_show_error => status_label' = StE("Unexpected error", tasks[Cur].exc)
       /\ exit_status' = "1" /\ exit_status # "1" => check_memory(TRUE)]_vars

\* C5: no step of a worker-pool task changes a Session field (reference
\* location, radius, last dataset, last outcome on the status label).
C5_SessionWrittenOnUiThread ==
    [][(\E t \in TaskIds : WorkerStep(t))
         => UNCHANGED <<user_location, radius_km, loaded_data, status_label>>]_vars

\* C6: the interactive thread is never inside a network or file call.
C6_NoIOOnUiThread == ~UiInIO

\* both user actions were fetches, both tasks are over and every callback
\* has run
TwoFetchesDelivered ==
    /\ user_actions = 2
    /\ \A t \in {1, 2} : tasks[t].kind = "fetch" /\ tasks[t].pc = "done"
    /\ after_queue = <<>>
    /\ ~UiClosed

\* C7: after two concurrent fetch tasks the views of the last dataset are
\* written by one task: the text box lists the records the map marks.
C7_NoPartialWrite == TwoFetchesDelivered => text_box.rows = markers

\* C8: fetch_data leaves the interactive thread free with the task's first
\* attempt still to be made, and the failure a fetch task hands to the
\* interactive thread is there when its queued callback runs.
C8_CompletionDelivered ==
    [][/\ M_fetch_data \/ C_fetch_data
            => ui' = "idle" /\ tasks'[next_task'].log = <<>>
       /\ M_run_show_error \/ C_run_show_error => tasks[Cur].e_bound]_vars

\* C9: a filter call made with the reference location unset returns no
\* record.
C9_SentinelGivesEmpty ==
    [][\A t \in TaskIds :
          /\ tasks[t].pc = "filter"
          /\ tasks'[t].pc = "post"
          /\ user_location = Sentinel
          => tasks'[t].filtered.rows = <<>>]_vars

\* ------------------------------------------------------------------------
\* The filter on its own: the steps of the program that call
\* filter_wildfires_within_radius, started where such a call is next, over
\* every dataset of up to MaxLen records
\* ------------------------------------------------------------------------
MaxLen == 3

\* the distance of the second record of BodyNear from LocA: a radius a
\* record lies exactly on
BoundaryRadius == haversine(LocA[1], LocA[2], 105, 200)

\* radii update_radius accepts
FilterRadii == {50, BoundaryRadius, RADIUS_KM, 200}

\* records of a response: the three of BodyNear, one without a latitude and
\* one whose latitude is text
FilterRecords == {Pt(101, 200), Pt(105, 200), Pt(114, 200),
                  Row(NaN, Num(200)), Row(Str(101), Num(200))}

FilterDatasets ==
    {read_csv([ok |-> TRUE, cols |-> NearCols, rows |-> rows]) :
        rows \in UNION {[1 .. n -> FilterRecords] : n \in 0 .. MaxLen}}

\* a fetch task whose response parsed to data, about to call the filter
FilteringTask(data) ==
    [NoTask EXCEPT !.kind = "fetch", !.pc = "filter", !.log = <<"ok">>, !.data = data]

\* the states in which a filter call is about to be made: fetch_data_task
\* after its response arrived, or (main variant) the window with a loaded
\* file before "Read CSV Data" is pressed
FilterInit ==
    /\ variant \in {"main", "commented"}
    /\ user_location \in {Sentinel, LocA}
    /\ radius_km \in IF variant = "main" THEN FilterRadii ELSE {RADIUS_KM}
    /\ \E data \in FilterDatasets :
          \/ /\ tasks = [t \in TaskIds |-> IF t = 1 THEN FilteringTask(data) ELSE NoTask]
             /\ next_task = 1
             /\ loaded_data = NoneValue
             /\ status_label = St("Fetching data...")
             /\ fetch_button = IF variant = "main" THEN "normal" ELSE "disabled"
          \/ /\ variant = "main"
             /\ tasks = [t \in TaskIds |-> NoTask]
             /\ next_task = 0
             /\ loaded_data = data
             /\ status_label = St("Loaded file")
             /\ fetch_button = "normal"
    /\ text_box = BlankText
    /\ markers = <<>>
    /\ ui = "idle"
    /\ exit_status = ""
    /\ after_queue = <<>>
    /\ memory_check_id = IF variant = "main" THEN 0 ELSE 1
    /\ mem_timer = (variant = "commented")
    /\ user_actions = 1

FilterNext ==
    \/ M_fetch_data_task_filter(1)
    \/ C_fetch_data_task_filter(1)
    \/ M_start_reading_csv_data

FilterSpec == FilterInit /\ [][FilterNext]_vars

\* every record of the dataset has a numeric latitude and longitude
Numeric(data) ==
    \A i \in DOMAIN data.rows :
        data.rows[i].lat.k = "num" /\ data.rows[i].lon.k = "num"

WithinRadius(row, loc, radius) ==
    haversine(loc[1], loc[2], row.lat.v, row.lon.v) <= radius

\* the records of data within radius of loc, in the order of data
RecordsWithin(data, loc, radius) ==
    SelectSeq(data.rows, LAMBDA row : WithinRadius(row, loc, radius))

\* C10: with the reference location set, a filter call returns exactly the
\* records of the dataset whose distance from the location is at most the
\* session radius, in the order of the dataset: in a fetch task, and in
\* "Read CSV Data" of the main variant, whose text box lists the result.
C10_FilterExact ==
    user_location # Sentinel =>
        /\ \A t \in FetchTasks :
              tasks[t].pc = "post" /\ Numeric(tasks[t].data)
                  => tasks[t].filtered.rows
                        = RecordsWithin(tasks[t].data, user_location, radius_km)
        /\ loaded_data.k = "df" /\ Numeric(loaded_data) /\ user_actions = 2
              => text_box.rows = RecordsWithin(loaded_data, user_location, radius_km)

\* the filter ran over the records about 10, 54 and 155 km from LocA with
\* radius 100 and kept the first two
C10_Witness ==
    /\ user_location = LocA
    /\ radius_km = 100
    /\ tasks[1].pc = "post"
    /\ tasks[1].data.rows = BodyNear.rows
    /\ tasks[1].filtered.rows = <<Pt(101, 200), Pt(105, 200)>>

\* a record with a latitude and a longitude that are numbers
GoodRecord(row) == row.lat.k = "num" /\ row.lon.k = "num"

\* the records of data that have numeric coordinates and lie within radius
\* of loc, in the order of data
GoodRecordsWithin(data, loc, radius) ==
    SelectSeq(data.rows,
              LAMBDA row : GoodRecord(row) /\ WithinRadius(row, loc, radius))

\* C11: with the reference location set, a filter call over a dataset that
\* holds records with a missing or non-numeric coordinate raises nothing and
\* returns the other records that are within the radius.
C11_SkipsBadRecords ==
    user_location # Sentinel =>
        \A t \in FetchTasks :
            tasks[t].pc \in {"post", "except"}
                => /\ tasks[t].exc = ""
                   /\ tasks[t].filtered.rows
                         = GoodRecordsWithin(tasks[t].data, user_location, radius_km)

\* C11 for the datasets whose bad records are all missing values (NaN)
C11_SkipsMissing ==
    user_location # Sentinel =>
        \A t \in FetchTasks :
            /\ tasks[t].pc \in {"post", "except"}
            /\ \A i \in DOMAIN tasks[t].data.rows :
                  tasks[t].data.rows[i].lat.k # "str" /\ tasks[t].data.rows[i].lon.k # "str"
            => /\ tasks[t].exc = ""
               /\ tasks[t].filtered.rows
                     = GoodRecordsWithin(tasks[t].data, user_location, radius_km)

\* the status label after update_radius rejected an integer <= 0
RadiusRejected == StE("Invalid input", "ValueError: Radius must be a positive integer.")

\* C12: update_radius with an integer <= 0 reports the invalid radius and
\* leaves the session radius as it was, and the session radius is > 0 in
\* every state.
C12_InvalidRadiusRejected ==
    /\ [](radius_km > 0)
    /\ [][\A input \in RadiusInputs :
             update_radius(input) /\ input.isInt /\ input.v <= 0
                 => radius_km' = radius_km /\ status_label' = RadiusRejected]_vars

\* an integer <= 0 was rejected after the radius had been set to 50
C12_Witness == radius_km = 50 /\ status_label = RadiusRejected

\* C13: when the window is torn down the periodic memory check has been
\* cancelled, no check is pending once it is down, and none runs then.
C13_CheckCancelledOnClose ==
    /\ [](ui \in {"closing", "closed"} => ~mem_timer)
    /\ [][UiClosed => ~(check_memory(TRUE) \/ check_memory(FALSE))]_vars

\* the window of the commented variant was closed while a memory check was
\* scheduled
C13_Witness ==
    /\ variant = "commented"
    /\ UiClosed
    /\ exit_status = "0"
    /\ memory_check_id # 0

\* C14: while the session is open a next memory check is always scheduled,
\* and a check that finds the usage above MEMORY_LIMIT_MB ends the process
\* with status 1.
C14_MemoryCheckPeriodic ==
    /\ [](UiIdle => mem_timer)
    /\ [][check_memory(TRUE) => exit_status' = "1" /\ UiClosed']_vars

\* C14 as the commented variant implements it
C14_CommentedChecks ==
    /\ [](variant = "commented" /\ UiIdle => mem_timer /\ memory_check_id # 0)
    /\ [][check_memory(TRUE) => exit_status' = "1" /\ UiClosed']_vars

\* the filter of the running variant applied to df under the session of the
\* state
FilterAgain(df) ==
    IF variant = "main"
    THEN M_filter_wildfires_within_radius(df, user_location, radius_km)
    ELSE C_filter_wildfires_within_radius(df, user_location)

\* result r of a filter call holds the records of df
SameRecords(r, df) == r.exc = "" /\ r.df.rows = df.rows

\* C15: the filter applied to the result of a filter call, with the same
\* reference location and radius, returns the records of that result.
C15_FilterIdempotent ==
    \A t \in FetchTasks :
        tasks[t].pc = "post"
            => SameRecords(FilterAgain(tasks[t].filtered), tasks[t].filtered)

\* a filter call kept some records of its dataset and dropped others
C15_Witness ==
    /\ tasks[1].pc = "post"
    /\ tasks[1].filtered.rows # <<>>
    /\ Len(tasks[1].filtered.rows) < Len(tasks[1].data.rows)

\* ------------------------------------------------------------------------
\* The distance on its own: a filter call over a dataset of one record, for
\* locations and records over the whole range of coordinates
\* ------------------------------------------------------------------------
\* latitudes and longitudes in tenths of a degree: the poles, the equator,
\* the date line from both sides, and points a few km apart
DistLats == {-900, -337, 0, 1, 100, 105, 900}
DistLons == {-1800, -1, 0, 200, 203, 1799, 1800}

DistPoints == DistLats \X DistLons

DistInit ==
    /\ variant \in {"main", "commented"}
    /\ user_location \in DistPoints
    /\ radius_km = RADIUS_KM
    /\ \E p \in DistPoints :
          tasks = [t \in TaskIds |->
                      IF t = 1 THEN FilteringTask(DF(NearCols, <<Pt(p[1], p[2])>>))
                      ELSE NoTask]
    /\ next_task = 1
    /\ loaded_data = NoneValue
    /\ status_label = St("Fetching data...")
    /\ fetch_button = IF variant = "main" THEN "normal" ELSE "disabled"
    /\ text_box = BlankText
    /\ markers = <<>>
    /\ ui = "idle"
    /\ exit_status = ""
    /\ after_queue = <<>>
    /\ memory_check_id = IF variant = "main" THEN 0 ELSE 1
    /\ mem_timer = (variant = "commented")
    /\ user_actions = 1

DistNext ==
    \/ M_fetch_data_task_filter(1)
    \/ C_fetch_data_task_filter(1)

DistSpec == DistInit /\ [][DistNext]_vars

\* C16: the distance from the reference location to a record equals the
\* distance from the record to the reference location.
C16_HaversineSymmetric ==
    \A t \in FetchTasks :
        \A i \in DOMAIN tasks[t].data.rows :
            haversine(user_location[1], user_location[2],
                      tasks[t].data.rows[i].lat.v, tasks[t].data.rows[i].lon.v)
              = haversine(tasks[t].data.rows[i].lat.v, tasks[t].data.rows[i].lon.v,
                          user_location[1], user_location[2])

\* the filter measured the distance between two points that differ in
\* latitude and longitude, and kept the record
C16_Witness ==
    /\ user_location = <<100, 200>>
    /\ tasks[1].pc = "post"
    /\ tasks[1].filtered.rows = <<Pt(105, 203)>>

\* ------------------------------------------------------------------------
\* The fetch button: the commented variant with its fetch, the tasks and
\* callbacks of the fetch, the memory check and the closing of the window
\* ------------------------------------------------------------------------
ButtonInit == Init /\ variant = "commented"

\* the steps of fetch_data_task in a worker thread
ButtonWorker(t) ==
    \/ \E r \in Responses : C_fetch_single_data_task(t, r)
    \/ C_fetch_data_task_filter(t)
    \/ C_fetch_data_task_post(t)
    \/ C_fetch_data_task_except(t)
    \/ C_fetch_data_task_leave_except(t)
    \/ C_fetch_data_task_finally(t)

\* the callbacks fetch_data_task queues, run by the main loop
ButtonCallback ==
    \/ C_run_set_position
    \/ C_run_display_data
    \/ C_run_show_results
    \/ C_run_status_done
    \/ C_run_show_error
    \/ C_run_enable_button

ButtonNext ==
    \/ \E o \in DetectOutcomes : detect_current_location(o)
    \/ \E over \in BOOLEAN : check_memory(over)
    \/ C_fetch_data
    \/ cancel_memory_check
    \/ close_window
    \/ ButtonCallback
    \/ \E t \in TaskIds : ButtonWorker(t)

\* task t stands at its call of filter_wildfires_within_radius: the state
\* in which C_fetch_data_task_filter(t) is enabled
InFilter(t) ==
    variant = "commented" /\ tasks[t].kind = "fetch" /\ tasks[t].pc = "filter"

\* the steps of fetch_data_task other than the filter call
ButtonWorkerCalls(t) ==
    \/ \E r \in Responses : C_fetch_single_data_task(t, r)
    \/ C_fetch_data_task_post(t)
    \/ C_fetch_data_task_except(t)
    \/ C_fetch_data_task_leave_except(t)
    \/ C_fetch_data_task_finally(t)

\* weak fairness of the filter call, with its enabling condition written
\* as the state predicate InFilter(t)
FilterCallFair(t) ==
    []<>~InFilter(t) \/ []<><<C_fetch_data_task_filter(t)>>_vars

\* a worker thread that can take a step takes it, the main loop runs the
\* callbacks queued for it, and the close handler runs to its end; the user
\* is under no obligation
ButtonSpec ==
    /\ ButtonInit
    /\ [][ButtonNext]_vars
    /\ \A t \in TaskIds : WF_vars(ButtonWorkerCalls(t)) /\ FilterCallFair(t)
    /\ WF_vars(ButtonCallback)
    /\ WF_vars(close_window)

\* fetch_data disables the button as it submits the task
DisabledOnSubmit ==
    [][C_fetch_data => fetch_button' = "disabled" /\ tasks'[next_task'].pc = "get"]_vars

\* the callback that re-enables the button is the last one a task queues
EnableQueuedLast ==
    /\ [](\A i, j \in DOMAIN after_queue :
             after_queue[i].fn = "enable_button" /\ i < j
                 => after_queue[j].t # after_queue[i].t)
    /\ [][\A t \in TaskIds :
             C_fetch_data_task_finally(t) /\ ~UiClosed
                 => tasks[t].posted = Len(C_FetchCallbacks) \/ tasks[t].exc # ""]_vars

\* C17 as stated: fetch_data disables the button, the re-enabling callback
\* is queued after the callbacks with the task's result or error, and a
\* disabled button is eventually enabled again.
C17_ButtonReenabled ==
    /\ DisabledOnSubmit
    /\ EnableQueuedLast
    /\ (fetch_button = "disabled") ~> (fetch_button = "normal")

\* C17 (amended): as C17_ButtonReenabled, with the button enabled again
\* unless the main loop ends first (the window is closed, or the memory
\* check exits).
C17_ButtonReenabledWhileOpen ==
    /\ DisabledOnSubmit
    /\ EnableQueuedLast
    /\ (fetch_button = "disabled") ~> (fetch_button = "normal" \/ UiClosed)

\* the button is enabled again after a fetch that timed out 3 times
C17_Witness ==
    /\ tasks[1].log = AllTimedOut
    /\ tasks[1].pc = "done"
    /\ next_task = 1
    /\ after_queue = <<>>
    /\ fetch_button = "normal"
    /\ ~UiClosed

====
